---- MODULE Spec2Model ----
(***************************************************************************)
(* Overlap ingestion of src/src/overlaps.rs: parse_paf (the streaming PAF  *)
(* parser with its reused line buffer), is_valid_overlap (the geometric    *)
(* validator) and extend_overlaps (the strand-aware extender).             *)
(*                                                                         *)
(* Text is a sequence of one-character strings, so that slicing, splitting *)
(* and number parsing are computed as the code computes them.              *)
(*                                                                         *)
(* u32 arithmetic: `a - b` and `a + b` panic on overflow when the crate is *)
(* built with overflow checks (the dev profile) and wrap otherwise (the    *)
(* release profile).  The variable overflow_checks is the build's choice.  *)
(* TLC's integers are 32 bits wide, so the u32 modulus 2^32 itself cannot  *)
(* be written; the model wraps at U32Modulus = 2^20, far above every       *)
(* length, coordinate and threshold of the inputs it enumerates.           *)
(***************************************************************************)
EXTENDS Integers, Sequences, FiniteSets, TLC

VARIABLES
    input,            \* the bytes of the overlap file (parse_paf's `path` contents)
    overflow_checks,  \* TRUE: arithmetic overflow panics; FALSE: it wraps
    pos,              \* bytes of input consumed by reader.read_line
    buffer,           \* parse_paf's reused `buffer: String`
    overlaps,         \* parse_paf's `overlaps: Vec<Overlap>` / extend_overlaps's slice
    processed,        \* parse_paf's `processed: HashSet<(u32, u32)>`
    pc,               \* where the program is: open, reading, done, geometry, panicked
    log,              \* history: one entry per loop iteration of parse_paf
    orig,             \* history: the collection before the first extend_overlaps call
    prev,             \* history: the collection before the latest extend_overlaps call
    passes,           \* history: number of completed extend_overlaps calls
    verdict           \* is_valid_overlap's answer for the first candidate: unset/accept/reject/panic

vars == <<input, overflow_checks, pos, buffer, overlaps, processed, pc, log,
          orig, prev, passes, verdict>>

---------------------------------------------------------------------------
(* Bounds of the model. *)

MaxLines == 3
MaxRecords == 2
MaxPasses == 2

---------------------------------------------------------------------------
(* Program constants. *)

OL_THRESHOLD == 2500
EXTEND_CAP == 2500

U32Modulus == 2 ^ 20

TAB == "\t"
NL == "\n"

Min(a, b) == IF a <= b THEN a ELSE b

\* u32 `a - b` and `a + b` in a build without overflow checks.
WrapSub(a, b) == (a - b) % U32Modulus
WrapAdd(a, b) == (a + b) % U32Modulus
\* Whether they panic in a build with overflow checks.
SubOverflows(a, b) == a < b
AddOverflows(a, b) == a + b >= U32Modulus

---------------------------------------------------------------------------
(* Strand and Overlap. *)

Strand == {"Forward", "Reverse"}

\* Overlap::new: the nine values, cigar None.
NewOverlap(qid, qlen, qstart, qend, strand, tid, tlen, tstart, tend) ==
    [qid |-> qid, qlen |-> qlen, qstart |-> qstart, qend |-> qend,
     strand |-> strand, tid |-> tid, tlen |-> tlen, tstart |-> tstart,
     tend |-> tend, cigar |-> "None"]

---------------------------------------------------------------------------
(* The f64 ratio of is_valid_overlap.  Both operands are u32 values, which *)
(* f64 holds exactly, and the quotient is correctly rounded; two distinct  *)
(* quotients of u32 values differ from 0.9 (or 1.111) by far more than one *)
(* rounding error, and a quotient equal to 9/10 (1111/1000) rounds to the  *)
(* same f64 as the literal.  So comparing against the literals equals the  *)
(* exact rational comparison, except for a zero divisor: x/0 is +inf and   *)
(* 0/0 is NaN, and every comparison with NaN is false.                     *)

F64Div(num, den) ==
    IF den = 0
    THEN IF num = 0 THEN [kind |-> "NaN", num |-> 0, den |-> 0]
                    ELSE [kind |-> "Inf", num |-> num, den |-> 0]
    ELSE [kind |-> "Finite", num |-> num, den |-> den]

\* ratio < 0.9
F64LessThan09(r) ==
    CASE r.kind = "NaN" -> FALSE
      [] r.kind = "Inf" -> FALSE
      [] OTHER -> 10 * r.num < 9 * r.den

\* ratio > 1.111
F64GreaterThan1111(r) ==
    CASE r.kind = "NaN" -> FALSE
      [] r.kind = "Inf" -> TRUE
      [] OTHER -> 1000 * r.num > 1111 * r.den

---------------------------------------------------------------------------
(* is_valid_overlap, with the value it returns (wrapping arithmetic) and   *)
(* the inputs on which a build with overflow checks panics inside it.      *)

\* The body of is_valid_overlap with `<` for `<=` in the query containment test.
is_valid_overlap_strict(qlen, qstart, qend, strand, tlen, tstart, tend) ==
    LET ratio == F64Div(WrapSub(tend, tstart), WrapSub(qend, qstart))
        nq == IF strand = "Forward"
              THEN <<qstart, qend>>
              ELSE <<WrapSub(qlen, qend), WrapSub(qlen, qstart)>>
    IN  IF F64LessThan09(ratio) \/ F64GreaterThan1111(ratio) THEN FALSE
        ELSE IF WrapSub(qlen, WrapSub(qend, qstart)) < OL_THRESHOLD THEN TRUE
        ELSE IF WrapSub(tlen, WrapSub(tend, tstart)) <= OL_THRESHOLD THEN TRUE
        ELSE IF /\ nq[1] > OL_THRESHOLD
                /\ tstart <= OL_THRESHOLD
                /\ WrapSub(qlen, nq[2]) <= OL_THRESHOLD THEN TRUE
        ELSE IF /\ tstart > OL_THRESHOLD
                /\ nq[1] <= OL_THRESHOLD
                /\ WrapSub(tlen, tend) <= OL_THRESHOLD THEN TRUE
        ELSE FALSE

is_valid_overlap(qlen, qstart, qend, strand, tlen, tstart, tend) ==
    LET ratio == F64Div(WrapSub(tend, tstart), WrapSub(qend, qstart))
        \* let (qstart, qend) = match strand { ... }
        nq == IF strand = "Forward"
              THEN <<qstart, qend>>
              ELSE <<WrapSub(qlen, qend), WrapSub(qlen, qstart)>>
    IN  IF F64LessThan09(ratio) \/ F64GreaterThan1111(ratio) THEN FALSE
        ELSE IF WrapSub(qlen, WrapSub(qend, qstart)) <= OL_THRESHOLD THEN TRUE
        \* Target contained in query
        ELSE IF WrapSub(tlen, WrapSub(tend, tstart)) <= OL_THRESHOLD THEN TRUE
        \* Prefix overlap between query and target
        ELSE IF /\ nq[1] > OL_THRESHOLD
                /\ tstart <= OL_THRESHOLD
                /\ WrapSub(qlen, nq[2]) <= OL_THRESHOLD THEN TRUE
        \* Suffix overlap between query and target
        ELSE IF /\ tstart > OL_THRESHOLD
                /\ nq[1] <= OL_THRESHOLD
                /\ WrapSub(tlen, tend) <= OL_THRESHOLD THEN TRUE
        ELSE FALSE

\* The subtractions is_valid_overlap evaluates, in its order of evaluation
\* (early returns and && short-circuits included); TRUE when one overflows.
is_valid_overlap_overflows(qlen, qstart, qend, strand, tlen, tstart, tend) ==
    IF SubOverflows(tend, tstart) \/ SubOverflows(qend, qstart) THEN TRUE
    ELSE LET tspan == tend - tstart
             qspan == qend - qstart
             ratio == F64Div(tspan, qspan)
         IN  IF F64LessThan09(ratio) \/ F64GreaterThan1111(ratio) THEN FALSE
             ELSE IF SubOverflows(qlen, qspan) THEN TRUE
             ELSE IF qlen - qspan <= OL_THRESHOLD THEN FALSE
             ELSE IF SubOverflows(tlen, tspan) THEN TRUE
             ELSE IF tlen - tspan <= OL_THRESHOLD THEN FALSE
             ELSE IF strand = "Reverse"
                     /\ (SubOverflows(qlen, qend) \/ SubOverflows(qlen, qstart))
                  THEN TRUE
             ELSE LET nq == IF strand = "Forward"
                            THEN <<qstart, qend>>
                            ELSE <<qlen - qend, qlen - qstart>>
                      prefixArm == nq[1] > OL_THRESHOLD /\ tstart <= OL_THRESHOLD
                      suffixArm == tstart > OL_THRESHOLD /\ nq[1] <= OL_THRESHOLD
                  IN  IF prefixArm /\ SubOverflows(qlen, nq[2]) THEN TRUE
                      ELSE IF prefixArm /\ qlen - nq[2] <= OL_THRESHOLD THEN FALSE
                      ELSE suffixArm /\ SubOverflows(tlen, tend)

---------------------------------------------------------------------------
(* extend_overlaps: the closure applied to one record, in its two halves   *)
(* (the `beginning` statements, then the `end` statements), and the pass   *)
(* over the slice.                                                         *)

Min3(a, b, c) == Min(Min(a, b), c)

\* The Reverse arm written as a copy of the Forward arm's `beginning`.
ExtendBeginningCopied(o) ==
    LET beginning == Min3(o.tstart, o.qstart, EXTEND_CAP)
    IN  [o EXCEPT !.tstart = WrapSub(@, beginning),
                  !.qstart = WrapSub(@, beginning)]

\* The record after the `beginning` statements.
ExtendBeginning(o) ==
    IF o.strand = "Forward"
    THEN LET beginning == Min3(o.tstart, o.qstart, EXTEND_CAP)
         IN  [o EXCEPT !.tstart = WrapSub(@, beginning),
                       !.qstart = WrapSub(@, beginning)]
    ELSE LET beginning == Min3(o.tstart, WrapSub(o.qlen, o.qend), EXTEND_CAP)
         IN  [o EXCEPT !.tstart = WrapSub(@, beginning),
                       !.qend = WrapAdd(@, beginning)]

\* The `end` statements bounded by the target's remainder and the cap only.
ExtendEndTargetOnly(o) ==
    LET end == Min(WrapSub(o.tlen, o.tend), EXTEND_CAP)
    IN  IF o.strand = "Forward"
        THEN [o EXCEPT !.tend = WrapAdd(@, end), !.qend = WrapAdd(@, end)]
        ELSE [o EXCEPT !.tend = WrapAdd(@, end), !.qstart = WrapSub(@, end)]

\* The record after the `end` statements, from the record after the `beginning` ones.
ExtendEnd(o) ==
    IF o.strand = "Forward"
    THEN LET end == Min3(WrapSub(o.tlen, o.tend), WrapSub(o.qlen, o.qend), EXTEND_CAP)
         IN  [o EXCEPT !.tend = WrapAdd(@, end),
                       !.qend = WrapAdd(@, end)]
    ELSE LET end == Min3(WrapSub(o.tlen, o.tend), o.qstart, EXTEND_CAP)
         IN  [o EXCEPT !.tend = WrapAdd(@, end),
                       !.qstart = WrapSub(@, end)]

\* The closure of extend_overlaps on one record, when nothing panics.
ExtendOne(o) == ExtendEnd(ExtendBeginning(o))

\* With overflow checks: the `beginning` statements panic (Reverse: qlen - qend).
BeginningPanics(o) ==
    o.strand = "Reverse" /\ SubOverflows(o.qlen, o.qend)

\* With overflow checks: the `end` statements panic, given the record after
\* the `beginning` statements.
EndPanics(o) ==
    IF o.strand = "Forward"
    THEN \/ SubOverflows(o.tlen, o.tend)
         \/ SubOverflows(o.qlen, o.qend)
         \/ LET end == Min3(o.tlen - o.tend, o.qlen - o.qend, EXTEND_CAP)
            IN  AddOverflows(o.tend, end) \/ AddOverflows(o.qend, end)
    ELSE \/ SubOverflows(o.tlen, o.tend)
         \/ AddOverflows(o.tend, Min3(o.tlen - o.tend, o.qstart, EXTEND_CAP))

ExtendPanics(o) == BeginningPanics(o) \/ EndPanics(ExtendBeginning(o))

\* The record a panicking closure leaves behind.
ExtendInterrupted(o) == IF BeginningPanics(o) THEN o ELSE ExtendBeginning(o)

\* extend_overlaps over the slice, in order: [panicked, overlaps].
extend_overlaps(s, checks) ==
    LET bad == {i \in DOMAIN s : checks /\ ExtendPanics(s[i])}
        stop == IF bad = {} THEN Len(s) + 1
                ELSE CHOOSE i \in bad : \A j \in bad : i <= j
    IN  [panicked |-> bad # {},
         overlaps |-> [i \in DOMAIN s |->
                          IF i < stop THEN ExtendOne(s[i])
                          ELSE IF i = stop THEN ExtendInterrupted(s[i])
                          ELSE s[i]]]

---------------------------------------------------------------------------
(* Text: str::split, str::parse::<u32>, BufRead::read_line, the registry.  *)

Digits == <<"0", "1", "2", "3", "4", "5", "6", "7", "8", "9">>

IsDigit(c) == \E i \in 1..10 : Digits[i] = c
DigitValue(c) == (CHOOSE i \in 1..10 : Digits[i] = c) - 1

\* The digits' value, most significant first; -1 for a non-digit or a value
\* that does not fit the integer type.
RECURSIVE DigitsValue(_, _, _)
DigitsValue(s, i, acc) ==
    IF i > Len(s) THEN acc
    ELSE IF ~IsDigit(s[i]) THEN -1
    ELSE IF acc * 10 + DigitValue(s[i]) >= U32Modulus THEN -1
    ELSE DigitsValue(s, i + 1, acc * 10 + DigitValue(s[i]))

\* `.parse::<u32>()`: the value, or -1 for Err.  An empty string, a lone sign,
\* a '-' and any non-digit are errors; one leading '+' is accepted.
ParseU32(s) ==
    IF s = <<>> THEN -1
    ELSE IF s[1] = "+"
         THEN IF Len(s) = 1 THEN -1 ELSE DigitsValue(s, 2, 0)
    ELSE DigitsValue(s, 1, 0)

\* `{}` of a u32: its decimal digits.
RECURSIVE FormatU32(_)
FormatU32(n) ==
    IF n < 10 THEN <<Digits[n + 1]>>
    ELSE Append(FormatU32(n \div 10), Digits[(n % 10) + 1])

\* s.split("\t") collected: the fields of s, at least one.
RECURSIVE SplitFrom(_, _, _)
SplitFrom(s, i, field) ==
    IF i > Len(s) THEN <<field>>
    ELSE IF s[i] = TAB THEN <<field>> \o SplitFrom(s, i + 1, <<>>)
    ELSE SplitFrom(s, i + 1, Append(field, s[i]))

SplitTab(s) == SplitFrom(s, 1, <<>>)

\* The number of bytes reader.read_line appends: through the first "\n" of the
\* unread input, or all of it when none is left; 0 at end of file.
RECURSIVE ReadLineLen(_, _)
ReadLineLen(rest, i) ==
    IF i > Len(rest) THEN Len(rest)
    ELSE IF rest[i] = NL THEN i
    ELSE ReadLineLen(rest, i + 1)

\* name_to_id: the registry the caller passes in.
name_to_id == (<<"A">> :> 0) @@ (<<"B">> :> 1)

---------------------------------------------------------------------------
(* parse_paf: one iteration of its `while let Ok(len) = read_line` loop.   *)

\* The key with the two ids put in order.
ProcessedKeyCanonical(qid, tid) == IF qid <= tid THEN <<qid, tid>> ELSE <<tid, qid>>

\* The key tested against and inserted into `processed`.
ProcessedKey(qid, tid) == <<qid, tid>>

\* The self-overlap test left out.
IsSelfOverlapNever(qid, tid) == FALSE

\* `if tid == qid`
IsSelfOverlap(qid, tid) == tid = qid

NoRecord == [none |-> TRUE]

\* What the loop body does with the fields `data` of the slice it parses:
\*   kind: skip_qname, skip_tname (the two `None => continue`, before
\*         buffer.clear()), self, dup, invalid, push, panic
\*   why:  for a panic: missing (unwrap of a field that is not there),
\*         numeric (unwrap of a parse error), strand, overflow
LineOutcome(data, seen, checks) ==
    LET n == Len(data)
        num(k) == ParseU32(data[k])
        out(kind, why, qid, tid) ==
            [kind |-> kind, why |-> why, qid |-> qid, tid |-> tid,
             rec |-> NoRecord, insert |-> FALSE]
    IN
    IF data[1] \notin DOMAIN name_to_id THEN out("skip_qname", "", -1, -1)
    ELSE LET qid == name_to_id[data[1]] IN
    IF n < 2 THEN out("panic", "missing", qid, -1)
    ELSE IF num(2) < 0 THEN out("panic", "numeric", qid, -1)
    ELSE IF n < 3 THEN out("panic", "missing", qid, -1)
    ELSE IF num(3) < 0 THEN out("panic", "numeric", qid, -1)
    ELSE IF n < 4 THEN out("panic", "missing", qid, -1)
    ELSE IF num(4) < 0 THEN out("panic", "numeric", qid, -1)
    ELSE IF n < 5 THEN out("panic", "missing", qid, -1)
    ELSE IF data[5] \notin {<<"+">>, <<"-">>} THEN out("panic", "strand", qid, -1)
    ELSE IF n < 6 THEN out("panic", "missing", qid, -1)
    ELSE IF data[6] \notin DOMAIN name_to_id THEN out("skip_tname", "", qid, -1)
    ELSE LET tid == name_to_id[data[6]] IN
    IF n < 7 THEN out("panic", "missing", qid, tid)
    ELSE IF num(7) < 0 THEN out("panic", "numeric", qid, tid)
    ELSE IF n < 8 THEN out("panic", "missing", qid, tid)
    ELSE IF num(8) < 0 THEN out("panic", "numeric", qid, tid)
    ELSE IF n < 9 THEN out("panic", "missing", qid, tid)
    ELSE IF num(9) < 0 THEN out("panic", "numeric", qid, tid)
    ELSE LET strand == IF data[5] = <<"+">> THEN "Forward" ELSE "Reverse"
             overlap == NewOverlap(qid, num(2), num(3), num(4), strand,
                                   tid, num(7), num(8), num(9))
         IN
    IF IsSelfOverlap(qid, tid) THEN out("self", "", qid, tid)
    ELSE IF ProcessedKey(qid, tid) \in seen THEN out("dup", "", qid, tid)
    ELSE IF checks /\ is_valid_overlap_overflows(num(2), num(3), num(4), strand,
                                                 num(7), num(8), num(9))
         THEN [out("panic", "overflow", qid, tid) EXCEPT !.insert = TRUE]
    ELSE IF is_valid_overlap(num(2), num(3), num(4), strand, num(7), num(8), num(9))
         THEN [out("push", "", qid, tid) EXCEPT !.rec = overlap, !.insert = TRUE]
    ELSE [out("invalid", "", qid, tid) EXCEPT !.insert = TRUE]

\* The state of parse_paf between two iterations.
ParseState(p, b, o, s, c, l) ==
    [pos |-> p, buffer |-> b, overlaps |-> o, processed |-> s, pc |-> c, log |-> l]

\* One iteration: read_line, the slice buffer[..len - 1], the fields, the outcome.
\* The input is ASCII, so read_line does not fail and every slice index is a
\* character boundary.
LoopBody(file, checks, st) ==
    LET rest == SubSeq(file, st.pos + 1, Len(file))
        len == ReadLineLen(rest, 1)
        text == SubSeq(rest, 1, len)
        buf == st.buffer \o text
    IN  IF len = 0
        THEN \* break; shrink_to_fit; eprintln; return overlaps
             [st EXCEPT !.pc = "done"]
        ELSE LET slice == SubSeq(buf, 1, len - 1)
                 data == SplitTab(slice)
                 o == LineOutcome(data, st.processed, checks)
                 cleared == o.kind \notin {"skip_qname", "skip_tname"}
                 newOverlaps == IF o.kind = "push"
                                THEN Append(st.overlaps, o.rec) ELSE st.overlaps
                 newProcessed == IF o.insert
                                 THEN st.processed \cup {ProcessedKey(o.qid, o.tid)}
                                 ELSE st.processed
             IN  [pos |-> st.pos + len,
                  buffer |-> IF cleared THEN <<>> ELSE buf,
                  overlaps |-> newOverlaps,
                  processed |-> newProcessed,
                  pc |-> IF o.kind = "panic" THEN "panicked" ELSE "reading",
                  log |-> Append(st.log,
                             [text |-> text, slice |-> slice, kind |-> o.kind,
                              why |-> o.why, qid |-> o.qid, tid |-> o.tid,
                              overlaps |-> newOverlaps, processed |-> newProcessed])]

\* parse_paf on a file that opens: the state in which its loop ends.
RECURSIVE RunLoop(_, _, _)
RunLoop(file, checks, st) ==
    IF st.pc # "reading" THEN st ELSE RunLoop(file, checks, LoopBody(file, checks, st))

parse_paf(file, checks) ==
    RunLoop(file, checks, ParseState(0, <<>>, <<>>, {}, "reading", <<>>))

---------------------------------------------------------------------------
(* Input files: up to MaxLines lines of the pool, each followed by "\n",   *)
(* the last one possibly not.                                              *)

\* One line of the nine positional fields, without its terminator.
PafLine(qname, qlen, qstart, qend, strand, tname, tlen, tstart, tend) ==
    qname \o <<TAB>> \o qlen \o <<TAB>> \o qstart \o <<TAB>> \o qend \o <<TAB>>
    \o strand \o <<TAB>> \o tname \o <<TAB>> \o tlen \o <<TAB>> \o tstart
    \o <<TAB>> \o tend

F(n) == FormatU32(n)

LinePool ==
    { \* A -> B, the whole of both reads
      PafLine(<<"A">>, F(10), F(0), F(10), <<"+">>, <<"B">>, F(10), F(0), F(10)),
      \* A -> B again, other coordinates, reverse strand
      PafLine(<<"A">>, F(10), F(2), F(10), <<"-">>, <<"B">>, F(10), F(2), F(10)),
      \* the swapped pair B -> A, with a tenth field
      PafLine(<<"B">>, F(10), F(0), F(10), <<"+">>, <<"A">>, F(10), F(0), F(10))
          \o <<TAB, "p">>,
      \* a self-overlap
      PafLine(<<"A">>, F(10), F(0), F(10), <<"+">>, <<"A">>, F(10), F(0), F(10)),
      \* unregistered query name
      PafLine(<<"X">>, F(10), F(0), F(10), <<"+">>, <<"B">>, F(10), F(0), F(10)),
      \* unregistered target name
      PafLine(<<"A">>, F(10), F(0), F(10), <<"+">>, <<"X">>, F(10), F(0), F(10)),
      \* unregistered target name and a query length that is no number
      PafLine(<<"A">>, <<"z">>, F(0), F(10), <<"+">>, <<"X">>, F(10), F(0), F(10)),
      \* span ratio 1/10: fails validation
      PafLine(<<"B">>, F(10), F(0), F(10), <<"+">>, <<"A">>, F(10), F(0), F(1)),
      \* qend beyond qlen
      PafLine(<<"A">>, F(10), F(5), F(15), <<"+">>, <<"B">>, F(20), F(0), F(10)),
      \* a strand character that is neither + nor -
      PafLine(<<"A">>, F(10), F(0), F(10), <<"*">>, <<"B">>, F(10), F(0), F(10)),
      \* a target end that is no number
      PafLine(<<"A">>, F(10), F(0), F(10), <<"+">>, <<"B">>, F(10), F(0), <<"z">>) }

RECURSIVE Concat(_, _)
\* The file holding the lines ls, each terminated, the last one only if `terminated`.
Concat(ls, terminated) ==
    IF ls = <<>> THEN <<>>
    ELSE IF Len(ls) = 1 THEN ls[1] \o (IF terminated THEN <<NL>> ELSE <<>>)
    ELSE ls[1] \o <<NL>> \o Concat(Tail(ls), terminated)

InputFiles ==
    {<<>>} \cup
    UNION { { Concat(ls, t) : ls \in [1..n -> LinePool], t \in BOOLEAN } : n \in 1..MaxLines }

---------------------------------------------------------------------------
(* Candidates and collections for is_valid_overlap and extend_overlaps:    *)
(* unaligned heads and tails placed at 0, at a few bases, at the threshold  *)
(* and one past it; a tail of -1 is an end one past the read's length,     *)
(* which parse_paf does materialize.                                       *)

Heads == {0, 7, OL_THRESHOLD, OL_THRESHOLD + 1}
\* <<query span, target span>>: ratios NaN, +inf, 0.899, 0.9, 1, 1.111, 1.112
SpanPairs == {<<0, 0>>, <<0, 1000>>, <<1000, 899>>, <<1000, 900>>,
              <<1000, 1000>>, <<1000, 1111>>, <<1000, 1112>>}

\* The record with these unaligned heads and tails around these spans.
Candidate(qh, qt, th, tt, sp, st) ==
    NewOverlap(0, qh + sp[1] + qt, qh, qh + sp[1], st,
               1, th + sp[2] + tt, th, th + sp[2])

\* start <= end <= len on both reads
InRangeCandidates ==
    { Candidate(qh, qt, th, tt, sp, st) :
        qh \in Heads, qt \in Heads, th \in Heads, tt \in Heads,
        sp \in SpanPairs, st \in Strand }

\* an end one past the read's length, on the query, the target or both
OverrunCandidates ==
    { Candidate(qh, qt, th, tt, <<1000, 1000>>, st) :
        qh \in Heads, th \in Heads, st \in Strand,
        qt \in {-1, 0}, tt \in {-1, 0, OL_THRESHOLD + 1} } \ InRangeCandidates

Candidates == InRangeCandidates \cup OverrunCandidates

\* The other records of the collection: one within its reads, one whose
\* query end is one past the query's length (the validator accepts both).
Companions ==
    { NewOverlap(1, 9000, 3000, 6000, "Forward", 0, 9000, 100, 3100),
      NewOverlap(0, 4000, 1000, 4001, "Reverse", 1, 8000, 2600, 5601) }

Collections ==
    UNION { { <<c>> \o rest : c \in Candidates,
                              rest \in [1..n -> Companions] } : n \in 0..(MaxRecords - 1) }

\* start <= end <= len on both reads
WellFormed(o) ==
    /\ 0 <= o.qstart /\ o.qstart <= o.qend /\ o.qend <= o.qlen
    /\ 0 <= o.tstart /\ o.tstart <= o.tend /\ o.tend <= o.tlen

---------------------------------------------------------------------------
(* The parser: Spec.                                                       *)

NoHistory == orig = <<>> /\ prev = <<>> /\ passes = 0 /\ verdict = "unset"

Init ==
    /\ input \in InputFiles
    /\ overflow_checks \in BOOLEAN
    /\ pos = 0
    /\ buffer = <<>>
    /\ overlaps = <<>>
    /\ processed = {}
    /\ pc = "open"
    /\ log = <<>>
    /\ NoHistory

\* File::open(path).expect("Cannot open overlap file.")
OpenFile ==
    /\ pc = "open"
    /\ \E ok \in BOOLEAN : pc' = IF ok THEN "reading" ELSE "panicked"
    /\ UNCHANGED <<input, overflow_checks, pos, buffer, overlaps, processed, log,
                   orig, prev, passes, verdict>>

Current == ParseState(pos, buffer, overlaps, processed, pc, log)

\* One iteration of the loop on a line that was read (len > 0).
ReadLine ==
    /\ pc = "reading"
    /\ pos < Len(input)
    /\ LET st == LoopBody(input, overflow_checks, Current)
       IN  /\ pos' = st.pos
           /\ buffer' = st.buffer
           /\ overlaps' = st.overlaps
           /\ processed' = st.processed
           /\ pc' = st.pc
           /\ log' = st.log
    /\ UNCHANGED <<input, overflow_checks, orig, prev, passes, verdict>>

\* read_line returns 0: break, shrink_to_fit, report the count, return.
Finish ==
    /\ pc = "reading"
    /\ pos = Len(input)
    /\ LET st == LoopBody(input, overflow_checks, Current)
       IN  /\ pc' = st.pc
           /\ overlaps' = st.overlaps
    /\ UNCHANGED <<input, overflow_checks, pos, buffer, processed, log,
                   orig, prev, passes, verdict>>

Next == OpenFile \/ ReadLine \/ Finish

Spec == Init /\ [][Next]_vars

---------------------------------------------------------------------------
(* The validator and the extender on their own: SpecGeom.                  *)

InitGeom ==
    /\ input = <<>>
    /\ overflow_checks \in BOOLEAN
    /\ pos = 0
    /\ buffer = <<>>
    /\ overlaps \in Collections
    /\ processed = {}
    /\ pc = "geometry"
    /\ log = <<>>
    /\ orig = overlaps
    /\ prev = overlaps
    /\ passes = 0
    /\ verdict = "unset"

Valid(o) ==
    is_valid_overlap(o.qlen, o.qstart, o.qend, o.strand, o.tlen, o.tstart, o.tend)

ValidOverflows(o) ==
    is_valid_overlap_overflows(o.qlen, o.qstart, o.qend, o.strand,
                               o.tlen, o.tstart, o.tend)

\* is_valid_overlap on the first candidate's values.
Validate ==
    /\ pc = "geometry"
    /\ verdict = "unset"
    /\ LET o == orig[1]
       IN  IF overflow_checks /\ ValidOverflows(o)
           THEN verdict' = "panic" /\ pc' = "panicked"
           ELSE verdict' = (IF Valid(o) THEN "accept" ELSE "reject") /\ pc' = pc
    /\ UNCHANGED <<input, overflow_checks, pos, buffer, overlaps, processed, log,
                   orig, prev, passes>>

\* extend_overlaps(&mut overlaps)
Extend ==
    /\ pc = "geometry"
    /\ passes < MaxPasses
    /\ LET r == extend_overlaps(overlaps, overflow_checks)
       IN  /\ overlaps' = r.overlaps
           /\ pc' = IF r.panicked THEN "panicked" ELSE pc
    /\ prev' = overlaps
    /\ passes' = passes + 1
    /\ UNCHANGED <<input, overflow_checks, pos, buffer, processed, log, orig, verdict>>

NextGeom == Validate \/ Extend

SpecGeom == InitGeom /\ [][NextGeom]_vars

---------------------------------------------------------------------------
(* What the claims speak of: a line's own text, the lines of a file.       *)

\* A line without its terminator, if it has one.
StripTerminator(text) ==
    IF text # <<>> /\ text[Len(text)] = NL THEN SubSeq(text, 1, Len(text) - 1) ELSE text

OwnFields(text) == SplitTab(StripTerminator(text))

\* The line names a query or a target that the registry does not hold.
UnknownNameLine(text) ==
    LET f == OwnFields(text)
    IN  \/ f[1] \notin DOMAIN name_to_id
        \/ Len(f) >= 6 /\ f[6] \notin DOMAIN name_to_id

\* The lines of a file, each with its terminator.
RECURSIVE LinesOf(_)
LinesOf(file) ==
    IF file = <<>> THEN <<>>
    ELSE LET n == ReadLineLen(file, 1)
         IN  <<SubSeq(file, 1, n)>> \o LinesOf(SubSeq(file, n + 1, Len(file)))

RECURSIVE Flatten(_)
Flatten(ls) == IF ls = <<>> THEN <<>> ELSE ls[1] \o Flatten(Tail(ls))

\* The file without its i-th line.
RemoveLine(file, i) ==
    LET ls == LinesOf(file)
    IN  Flatten(SubSeq(ls, 1, i - 1) \o SubSeq(ls, i + 1, Len(ls)))

\* The lines that got as far as the test against `processed`.
ReachedDedup(e) ==
    e.kind \in {"dup", "invalid", "push"} \/ (e.kind = "panic" /\ e.why = "overflow")

SamePair(e, f) == e.qid = f.qid /\ e.tid = f.tid
SwappedPair(e, f) == e.qid = f.tid /\ e.tid = f.qid

\* The collection and the set of seen pairs before the k-th iteration.
OverlapsBefore(k) == IF k = 1 THEN <<>> ELSE log[k - 1].overlaps
ProcessedBefore(k) == IF k = 1 THEN {} ELSE log[k - 1].processed

---------------------------------------------------------------------------
(* Claims about parse_paf, under Spec.                                     *)

\* C1 (as claimed): a line whose query or target name is not registered is
\* dropped and every later line is parsed from its own text, so a completed
\* run returns the records of the same file with that line removed.
UnknownNameLineIsRemovable ==
    pc = "done" =>
        \A i \in 1..Len(LinesOf(input)) :
            UnknownNameLine(LinesOf(input)[i]) =>
                LET r == parse_paf(RemoveLine(input, i), overflow_checks)
                IN  r.pc = "done" /\ r.overlaps = overlaps

\* C2: the output holds at most one record per ordered pair (qid, tid); a line
\* that reaches the pair test is suppressed exactly when an earlier line
\* reached it with the same ordered pair (never because of the swapped pair);
\* and every record was pushed by the first line of its pair.
OrderedPairDedup ==
    /\ \A i, j \in DOMAIN overlaps :
           i < j => <<overlaps[i].qid, overlaps[i].tid>> # <<overlaps[j].qid, overlaps[j].tid>>
    /\ \A k \in DOMAIN log :
           ReachedDedup(log[k]) =>
               (log[k].kind = "dup" <=>
                   \E j \in 1..(k - 1) : ReachedDedup(log[j]) /\ SamePair(log[j], log[k]))
    /\ \A i \in DOMAIN overlaps :
           \E k \in DOMAIN log :
               /\ log[k].kind = "push"
               /\ log[k].overlaps = SubSeq(overlaps, 1, i)
               /\ log[k].qid = overlaps[i].qid /\ log[k].tid = overlaps[i].tid
               /\ \A j \in 1..(k - 1) : ~(ReachedDedup(log[j]) /\ SamePair(log[j], log[k]))

\* C2 witness: a pair pushed, a later line of the same ordered pair
\* suppressed, and a line of the swapped pair pushed after the first.
OrderedPairDedupWitness ==
    \E i, j, k \in DOMAIN log :
        /\ i < j /\ i < k
        /\ log[i].kind = "push"
        /\ log[j].kind = "dup" /\ SamePair(log[i], log[j])
        /\ log[k].kind = "push" /\ SwappedPair(log[i], log[k])
        /\ Len(overlaps) = 2

\* C3 (as claimed): every record parse_paf holds satisfies
\* qstart <= qend <= qlen and tstart <= tend <= tlen.
MaterializedRecordsWellFormed ==
    \A i \in DOMAIN overlaps : WellFormed(overlaps[i])

\* C6 (as claimed): a line with an unregistered query or target name is
\* skipped whatever its other fields contain; it never aborts the run.
UnknownNameLineNeverAborts ==
    \A k \in DOMAIN log :
        UnknownNameLine(log[k].text) => log[k].kind \in {"skip_qname", "skip_tname"}

\* C7: no record of the output has qid = tid, and a line whose resolved qid
\* equals its resolved tid leaves the output and the set of seen pairs as
\* they were before it.
SelfOverlapRejected ==
    /\ \A i \in DOMAIN overlaps : overlaps[i].qid # overlaps[i].tid
    /\ \A k \in DOMAIN log :
           (log[k].qid >= 0 /\ log[k].qid = log[k].tid) =>
               /\ log[k].overlaps = OverlapsBefore(k)
               /\ log[k].processed = ProcessedBefore(k)
    /\ log # <<>> => /\ overlaps = log[Len(log)].overlaps
                     /\ processed = log[Len(log)].processed

\* C7 witness: a self-overlap line read after a record was pushed and a pair
\* was marked, in a run that completed.
SelfOverlapRejectedWitness ==
    /\ pc = "done"
    /\ \E k \in DOMAIN log :
           /\ k > 1
           /\ log[k].kind = "self"
           /\ Len(log[k].overlaps) = 1
           /\ log[k].processed # {}

\* C8 (as claimed): a file whose last line has no terminator ends as the same
\* file with the terminator added does: same abort or completion, same records.
UnterminatedLastLineSameOutcome ==
    (pc \in {"done", "panicked"} /\ log # <<>> /\ input[Len(input)] # NL) =>
        LET r == parse_paf(input \o <<NL>>, overflow_checks)
        IN  r.pc = pc /\ r.overlaps = overlaps

---------------------------------------------------------------------------
(* Claims about is_valid_overlap and extend_overlaps, under SpecGeom.      *)
(* The reference values are written over the integers, without wrapping.   *)

QSpan(o) == o.qend - o.qstart
TSpan(o) == o.tend - o.tstart

\* The span ratio lies in [0.9, 1.111].
RatioInRange(o) ==
    /\ QSpan(o) > 0
    /\ 9 * QSpan(o) <= 10 * TSpan(o)
    /\ 1000 * TSpan(o) <= 1111 * QSpan(o)

\* (qstart', qend'): the query coordinates in the target's orientation.
QStartNorm(o) == IF o.strand = "Reverse" THEN o.qlen - o.qend ELSE o.qstart
QEndNorm(o) == IF o.strand = "Reverse" THEN o.qlen - o.qstart ELSE o.qend

QueryContained(o) == o.qlen - QSpan(o) <= OL_THRESHOLD
TargetContained(o) == o.tlen - TSpan(o) <= OL_THRESHOLD
PrefixOverlap(o) ==
    /\ QStartNorm(o) > OL_THRESHOLD
    /\ o.tstart <= OL_THRESHOLD
    /\ o.qlen - QEndNorm(o) <= OL_THRESHOLD
SuffixOverlap(o) ==
    /\ o.tstart > OL_THRESHOLD
    /\ QStartNorm(o) <= OL_THRESHOLD
    /\ o.tlen - o.tend <= OL_THRESHOLD

SomeTopology(o) ==
    QueryContained(o) \/ TargetContained(o) \/ PrefixOverlap(o) \/ SuffixOverlap(o)

Validated == verdict \in {"accept", "reject"}

\* C4 (as claimed): for start <= end <= len, is_valid_overlap returns true
\* exactly when the span ratio lies in [0.9, 1.111] and one of the four
\* topologies holds.
ValidatorDecisionAsClaimed ==
    (Validated /\ WellFormed(orig[1])) =>
        (verdict = "accept" <=> (RatioInRange(orig[1]) /\ SomeTopology(orig[1])))

\* C4 (amended): for start <= end <= len, is_valid_overlap returns true exactly
\* when the ratio test does not reject (the span ratio lies in [0.9, 1.111], or
\* both spans are empty, whose ratio 0/0 is NaN and fails both comparisons)
\* and one of the four topologies holds, each `<= T` accepting at T and
\* rejecting at T + 1.
ValidatorDecision ==
    (Validated /\ WellFormed(orig[1])) =>
        (verdict = "accept" <=>
            /\ RatioInRange(orig[1]) \/ (QSpan(orig[1]) = 0 /\ TSpan(orig[1]) = 0)
            /\ SomeTopology(orig[1]))

\* C4 witness: accepted with the ratio exactly 0.9 and the query's unaligned
\* remainder exactly T, no other topology holding.
ValidatorDecisionWitness ==
    /\ verdict = "accept"
    /\ WellFormed(orig[1])
    /\ 10 * TSpan(orig[1]) = 9 * QSpan(orig[1])
    /\ QSpan(orig[1]) > 0
    /\ orig[1].qlen - QSpan(orig[1]) = OL_THRESHOLD
    /\ ~TargetContained(orig[1]) /\ ~PrefixOverlap(orig[1]) /\ ~SuffixOverlap(orig[1])

Extended == passes >= 1 /\ pc # "panicked"

AbsDiff(a, b) == IF a >= b THEN a - b ELSE b - a

\* The record is one parse_paf materializes in this build.
Materializable(o) == Valid(o) /\ ~(overflow_checks /\ ValidOverflows(o))

\* C5 (as claimed): after extend_overlaps every record has
\* 0 <= qstart <= qend <= qlen and 0 <= tstart <= tend <= tlen, and no
\* coordinate differs from its value before the call by more than T.
ExtensionBounds ==
    Extended =>
        \A i \in DOMAIN overlaps :
            Materializable(orig[i]) =>
                /\ WellFormed(overlaps[i])
                /\ AbsDiff(overlaps[i].qstart, prev[i].qstart) <= EXTEND_CAP
                /\ AbsDiff(overlaps[i].qend, prev[i].qend) <= EXTEND_CAP
                /\ AbsDiff(overlaps[i].tstart, prev[i].tstart) <= EXTEND_CAP
                /\ AbsDiff(overlaps[i].tend, prev[i].tend) <= EXTEND_CAP

\* The same, for the records that satisfy start <= end <= len before the call.
ExtensionBoundsOfWellFormed ==
    Extended =>
        \A i \in DOMAIN overlaps :
            WellFormed(prev[i]) =>
                /\ WellFormed(overlaps[i])
                /\ AbsDiff(overlaps[i].qstart, prev[i].qstart) <= EXTEND_CAP
                /\ AbsDiff(overlaps[i].qend, prev[i].qend) <= EXTEND_CAP
                /\ AbsDiff(overlaps[i].tstart, prev[i].tstart) <= EXTEND_CAP
                /\ AbsDiff(overlaps[i].tend, prev[i].tend) <= EXTEND_CAP

\* Each side has at least one read at its boundary.
AtBounds(o) ==
    IF o.strand = "Forward"
    THEN /\ Min(o.tstart, o.qstart) = 0
         /\ Min(o.tlen - o.tend, o.qlen - o.qend) = 0
    ELSE /\ Min(o.tstart, o.qlen - o.qend) = 0
         /\ Min(o.tlen - o.tend, o.qstart) = 0

Coordinates(o) == <<o.qstart, o.qend, o.tstart, o.tend>>

\* C9: a further extend_overlaps call on an already-extended record that is
\* at its bounds leaves all four coordinates unchanged.
ExtendIdempotentAtBounds ==
    (passes >= 2 /\ pc # "panicked") =>
        \A i \in DOMAIN overlaps :
            AtBounds(prev[i]) => Coordinates(overlaps[i]) = Coordinates(prev[i])

\* C9 witness: the first call moved the record to its bounds, the second
\* call ran and changed nothing.
ExtendIdempotentAtBoundsWitness ==
    /\ passes = 2 /\ pc # "panicked"
    /\ prev[1].strand = "Reverse"
    /\ Coordinates(prev[1]) # Coordinates(orig[1])
    /\ AtBounds(prev[1])
    /\ prev[1].tstart > 0
    /\ Coordinates(overlaps[1]) = Coordinates(prev[1])

\* The record the claim prescribes.
Reference(o) ==
    IF o.strand = "Forward"
    THEN LET b == Min3(o.tstart, o.qstart, 2500)
             e == Min3(o.tlen - o.tend, o.qlen - o.qend, 2500)
         IN  [o EXCEPT !.tstart = o.tstart - b, !.qstart = o.qstart - b,
                       !.tend = o.tend + e, !.qend = o.qend + e]
    ELSE LET b == Min3(o.tstart, o.qlen - o.qend, 2500)
             e == Min3(o.tlen - o.tend, o.qstart, 2500)
         IN  [o EXCEPT !.tstart = o.tstart - b, !.qend = o.qend + b,
                       !.tend = o.tend + e, !.qstart = o.qstart - e]

\* C10: for every record with start <= end <= len, extend_overlaps yields
\* the reference record, whatever the other records of the collection are:
\* starts do not increase, ends do not decrease, and qid, tid, qlen, tlen,
\* strand and cigar are unchanged.
ExtendMatchesReference ==
    Extended =>
        /\ Len(overlaps) = Len(prev)
        /\ \A i \in DOMAIN overlaps :
               WellFormed(prev[i]) =>
                   /\ overlaps[i] = Reference(prev[i])
                   /\ overlaps[i].qstart <= prev[i].qstart
                   /\ overlaps[i].tstart <= prev[i].tstart
                   /\ overlaps[i].qend >= prev[i].qend
                   /\ overlaps[i].tend >= prev[i].tend
                   /\ overlaps[i].qid = prev[i].qid /\ overlaps[i].tid = prev[i].tid
                   /\ overlaps[i].qlen = prev[i].qlen /\ overlaps[i].tlen = prev[i].tlen
                   /\ overlaps[i].strand = prev[i].strand
                   /\ overlaps[i].cigar = prev[i].cigar

\* C10 witness: a Reverse record among others, extended by the full cap at
\* the target's start and by less than the cap at the target's end.
ExtendMatchesReferenceWitness ==
    /\ passes = 1 /\ pc # "panicked"
    /\ Len(overlaps) = 2
    /\ orig[1].strand = "Reverse"
    /\ WellFormed(orig[1])
    /\ orig[1].tstart - overlaps[1].tstart = EXTEND_CAP
    /\ overlaps[1].qend - orig[1].qend = EXTEND_CAP
    /\ overlaps[1].qstart < orig[1].qstart

====
